---- MODULE Spec2Model ----
(***************************************************************************)
(* Reliable, congestion-controlled file transfer over UDP.                  *)
(*                                                                         *)
(*   p2_server.py  CongestionControl, RTTEstimator, send_file (the sender)  *)
(*   p2_client.py  receive_file, send_ack (the receiver)                    *)
(*                                                                         *)
(* cwnd is a Python float that grows by 1.0 / floor(cwnd) in congestion     *)
(* avoidance.  The model keeps it as an exact fraction [n, d] in lowest     *)
(* terms; the rounding of the binary float is not modelled.                 *)
(***************************************************************************)
EXTENDS Integers, Sequences, FiniteSets, TLC

(* ---------------------------- program constants ------------------------ *)

MSS == 1400
INITIAL_CWND == 1
INITIAL_SSTHRESH == 64
DUP_ACK_THRESHOLD == 3
\* in seconds, the unit of every time in the model
INITIAL_TIMEOUT == 1
receiver_window == 65535

(* ------------------------------- bounds -------------------------------- *)

\* chunks of MSS bytes in the file, when sender, channel and receiver run together
NumSegs == 2
\* chunks of MSS bytes in the file, when the sender or the receiver runs on its own
SoloSegs == 5
\* the controller explored in isolation takes no ack at floor(cwnd) >= MaxCwnd
MaxCwnd == 66
\* the sender takes no ack at floor(cwnd) >= MaxSysCwnd
MaxSysCwnd == 6
\* datagrams the channel may drop in one run
MaxLoss == 1
\* the small window an ack may advertise to the sender on its own
SmallWindow == 2
\* the estimator explored in isolation takes samples of 0 .. MaxRtt seconds,
\* MaxSamples of them
MaxRtt == 4
MaxSamples == 3

(* ------------------------------ arithmetic ----------------------------- *)

Max(a, b) == IF a >= b THEN a ELSE b

\* the remainder is bound by a set constructor, so that it is computed once
RECURSIVE GCD(_, _)
GCD(a, b) == IF b = 0 THEN a ELSE CHOOSE g \in {GCD(b, r) : r \in {a % b}} : TRUE

\* the fraction n/d in lowest terms (d > 0)
Frac(n, d) == LET g == GCD(n, d) IN [n |-> n \div g, d |-> d \div g]

FromInt(k) == [n |-> k, d |-> 1]

\* math.floor(x)
Floor(x) == x.n \div x.d

\* x + 1.0 / k
AddInverse(x, k) == Frac(x.n * k + x.d, x.d * k)

\* x + k
AddInt(x, k) == Frac(x.n + k * x.d, x.d)

\* math.floor(x / 2)
FloorHalf(x) == x.n \div (2 * x.d)

\* x >= k, and k < x, for an integer k
GeqInt(x, k) == x.n >= k * x.d

IntLess(k, x) == k * x.d < x.n

\* x + y, over the least common denominator; the operands are bound by a set
\* constructor, here and below, so that each is computed once
FracAdd(x, y) ==
    CHOOSE f \in {Frac(a.n * (b.d \div g) + b.n * (a.d \div g), a.d * (b.d \div g)) :
                      a \in {x}, b \in {y}, g \in {GCD(x.d, y.d)}} : TRUE

\* abs(x - y)
AbsDiff(x, y) ==
    CHOOSE f \in {Frac(IF a.n * (b.d \div g) >= b.n * (a.d \div g)
                       THEN a.n * (b.d \div g) - b.n * (a.d \div g)
                       ELSE b.n * (a.d \div g) - a.n * (b.d \div g),
                       a.d * (b.d \div g)) :
                      a \in {x}, b \in {y}, g \in {GCD(x.d, y.d)}} : TRUE

\* (k / m) * x: 0.875 is 7/8, 0.125 is 1/8, 0.75 is 3/4, 0.25 is 1/4
Scale(k, m, x) == CHOOSE f \in {Frac(k * a.n, m * a.d) : a \in {x}} : TRUE

(* ------------------------- CongestionControl --------------------------- *)

\* CongestionControl.__init__
CongestionControl ==
    [cwnd |-> FromInt(INITIAL_CWND), ssthresh |-> INITIAL_SSTHRESH,
     state |-> "slow_start", dup_ack_count |-> 0]

\* a slip: the halved window is not floored at 2
on_timeout_no_floor(c) ==
    [cwnd |-> FromInt(INITIAL_CWND), ssthresh |-> FloorHalf(c.cwnd),
     state |-> "slow_start", dup_ack_count |-> 0]

\* a slip: the duplicate-ack counter survives the timeout
on_timeout_keeps_count(c) ==
    [cwnd |-> FromInt(INITIAL_CWND), ssthresh |-> Max(FloorHalf(c.cwnd), 2),
     state |-> "slow_start", dup_ack_count |-> c.dup_ack_count]

\* a slip: the window survives the timeout
on_timeout_keeps_window(c) ==
    [cwnd |-> c.cwnd, ssthresh |-> Max(FloorHalf(c.cwnd), 2),
     state |-> "slow_start", dup_ack_count |-> 0]

\* CongestionControl.on_timeout
on_timeout(c) ==
    [cwnd |-> FromInt(INITIAL_CWND), ssthresh |-> Max(FloorHalf(c.cwnd), 2),
     state |-> "slow_start", dup_ack_count |-> 0]

\* a slip: the window is set to ssthresh, without the three segments that left
on_triple_duplicate_ack_no_inflate(c) ==
    LET s == Max(FloorHalf(c.cwnd), 2) IN
    [c EXCEPT !.ssthresh = s, !.cwnd = FromInt(s), !.state = "fast_recovery"]

\* CongestionControl.on_triple_duplicate_ack
on_triple_duplicate_ack(c) ==
    LET s == Max(FloorHalf(c.cwnd), 2) IN
    [c EXCEPT !.ssthresh = s, !.cwnd = FromInt(s + 3), !.state = "fast_recovery"]

\* a slip: fast recovery is entered one duplicate early
CountDuplicate_early(c) ==
    LET c1 == [c EXCEPT !.dup_ack_count = @ + 1] IN
    IF c1.dup_ack_count = DUP_ACK_THRESHOLD - 1 THEN on_triple_duplicate_ack(c1) ELSE c1

\* shared by the slow_start and congestion_avoidance branches: a duplicate ack
CountDuplicate(c) ==
    LET c1 == [c EXCEPT !.dup_ack_count = @ + 1] IN
    IF c1.dup_ack_count = DUP_ACK_THRESHOLD THEN on_triple_duplicate_ack(c1) ELSE c1

\* a slip: slow start leaves for congestion avoidance only above ssthresh
on_ack_received_late_exit(c, is_duplicate) ==
    IF c.state = "slow_start" THEN
        IF ~is_duplicate THEN
            LET w == AddInt(c.cwnd, 1) IN
            [c EXCEPT !.cwnd = w, !.dup_ack_count = 0,
                      !.state = IF IntLess(c.ssthresh, w)
                                THEN "congestion_avoidance" ELSE @]
        ELSE CountDuplicate(c)
    ELSE IF c.state = "congestion_avoidance" THEN
        IF ~is_duplicate THEN
            [c EXCEPT !.cwnd = AddInverse(c.cwnd, Floor(c.cwnd)), !.dup_ack_count = 0]
        ELSE CountDuplicate(c)
    ELSE IF c.state = "fast_recovery" THEN
        IF ~is_duplicate THEN
            [c EXCEPT !.cwnd = FromInt(c.ssthresh), !.dup_ack_count = 0,
                      !.state = "congestion_avoidance"]
        ELSE [c EXCEPT !.cwnd = AddInt(c.cwnd, 1)]
    ELSE c

\* CongestionControl.on_ack_received
on_ack_received(c, is_duplicate) ==
    IF c.state = "slow_start" THEN
        IF ~is_duplicate THEN
            LET w == AddInt(c.cwnd, 1) IN
            [c EXCEPT !.cwnd = w, !.dup_ack_count = 0,
                      !.state = IF GeqInt(w, c.ssthresh)
                                THEN "congestion_avoidance" ELSE @]
        ELSE CountDuplicate(c)
    ELSE IF c.state = "congestion_avoidance" THEN
        IF ~is_duplicate THEN
            [c EXCEPT !.cwnd = AddInverse(c.cwnd, Floor(c.cwnd)), !.dup_ack_count = 0]
        ELSE CountDuplicate(c)
    ELSE IF c.state = "fast_recovery" THEN
        IF ~is_duplicate THEN
            [c EXCEPT !.cwnd = FromInt(c.ssthresh), !.dup_ack_count = 0,
                      !.state = "congestion_avoidance"]
        ELSE [c EXCEPT !.cwnd = AddInt(c.cwnd, 1)]
    ELSE c

(* ---------------------------- RTTEstimator ------------------------------ *)

\* Python's None, told apart from every fraction by its denominator
None == [n |-> 0, d |-> 0]

\* RTTEstimator.__init__
RTTEstimator == [srtt |-> None, rttvar |-> None, timeout |-> FromInt(INITIAL_TIMEOUT)]

\* RTTEstimator.update
update(e, rtt) ==
    LET rttvar == IF e.srtt = None THEN Scale(1, 2, rtt)
                  ELSE FracAdd(Scale(3, 4, e.rttvar), Scale(1, 4, AbsDiff(e.srtt, rtt)))
        srtt   == IF e.srtt = None THEN rtt
                  ELSE FracAdd(Scale(7, 8, e.srtt), Scale(1, 8, rtt))
    IN [srtt |-> srtt, rttvar |-> rttvar, timeout |-> FracAdd(srtt, Scale(4, 1, rttvar))]

(* ------------------------------ the file -------------------------------- *)

\* create_packet
create_packet(s, data) == [kind |-> "data", seq |-> s, data |-> data]

\* json.dumps({'end': True})
EndPacket == [kind |-> "end", seq |-> 0 - 1, data |-> <<>>]

\* b"START", the handshake datagram: it is not JSON
StartPacket == [kind |-> "START", ack |-> 0 - 1, window |-> 0]

\* a datagram that json.loads rejects at the receiver: not JSON, or a segment
\* longer than the MSS + 1000 bytes recvfrom takes and so cut short
Undecodable == [kind |-> "undecodable", seq |-> 0 - 1, data |-> <<>>]

(* ------------------------------ state ---------------------------------- *)

VARIABLES
    file_chunks,        \* the file to send, as its number of chunks of MSS bytes
    cc,                 \* sender: the CongestionControl object
    hist,               \* history of the controller's events (isolated controller)
    seq_num,            \* sender: next sequence number to assign
    window_base,        \* sender
    unacked_packets,    \* sender: seq -> packet in flight
    last_ack_received,  \* sender
    chunk,              \* sender: the last value file.read returned
    spc,                \* sender: "listen", "wait", "done" or "crashed"
    shist,              \* history of the sender's transmissions
    rtt_estimator,      \* sender: the RTTEstimator object
    rtt_hist,           \* history of the estimator's samples (isolated estimator)
    expected_seq_num,   \* receiver
    buffer,             \* receiver: seq -> payload held out of order
    received_packets,   \* receiver
    outfile,            \* receiver: the bytes written to the output file
    cpc,                \* receiver: "run", "done" or "crashed"
    rhist,              \* history of the receiver's arrivals and acks
    dataChan,           \* datagrams in flight to the receiver
    ackChan,            \* datagrams in flight to the sender
    lost                \* datagrams the channel has dropped

\* file.read(MSS) at chunk position s: the chunk, or b'' past the end
ReadChunk(s) == IF s < file_chunks THEN <<s>> ELSE <<>>

ccVars == <<cc, hist>>

senderVars == <<file_chunks, seq_num, window_base, unacked_packets, last_ack_received, chunk,
                spc, shist, rtt_estimator, rtt_hist>>

clientVars == <<expected_seq_num, buffer, received_packets, outfile, cpc, rhist>>

chanVars == <<dataChan, ackChan, lost>>

vars == <<file_chunks, cc, hist, seq_num, window_base, unacked_packets, last_ack_received, chunk,
          spc, shist, rtt_estimator, rtt_hist, expected_seq_num, buffer, received_packets, outfile, cpc, rhist,
          dataChan, ackChan, lost>>

Seqs == 0 .. (file_chunks - 1)

\* send_file up to its first recvfrom (the first chunk is read, no peer is known);
\* receive_file up to its first recvfrom (START is on its way)
InitWith(chunks) ==
    /\ file_chunks = chunks
    /\ cc = CongestionControl
    /\ hist = [ev |-> "none", from |-> "none", run |-> 0, acks |-> 0]
    /\ seq_num = 0
    /\ window_base = 0
    /\ unacked_packets = <<>>
    /\ last_ack_received = 0 - 1
    /\ chunk = ReadChunk(0)
    /\ spc = "listen"
    /\ shist = [ends |-> 0, late |-> FALSE, filled |-> 0, ev |-> "none", rtx |-> {},
                resent |-> {}, sampled |-> 0 - 1, sampled_again |-> FALSE,
                window |-> 0 - 1]
    /\ rtt_estimator = RTTEstimator
    /\ rtt_hist = [n |-> 0, zero |-> FALSE]
    /\ expected_seq_num = 0
    /\ buffer = <<>>
    /\ received_packets = {}
    /\ outfile = <<>>
    /\ cpc = "run"
    /\ rhist = [last |-> 0 - 1, prev |-> 0 - 1, arrived |-> {}, dup |-> FALSE, ooo |-> FALSE,
                again |-> FALSE, sent |-> {}, kind |-> "none"]
    /\ dataChan = {}
    /\ ackChan = {StartPacket}
    /\ lost = 0

Init == InitWith(NumSegs)

SoloInit == InitWith(SoloSegs)

(* ------------------------------ receiver ------------------------------- *)

\* send_ack
send_ack(seq, window_size) == [kind |-> "ack", ack |-> seq, window |-> window_size]

\* the receiver's variables as one value
Receiver ==
    [expected_seq_num |-> expected_seq_num, buffer |-> buffer,
     received_packets |-> received_packets, outfile |-> outfile, sent |-> {}]

\* a slip: the loop over the buffer is left out
DrainBuffer_skipped(r) == r

\* the loop that writes the consecutive packets held in the buffer
RECURSIVE DrainBuffer(_)
DrainBuffer(r) ==
    IF r.expected_seq_num \in DOMAIN r.buffer
    THEN DrainBuffer([r EXCEPT
             !.outfile = @ \o r.buffer[r.expected_seq_num],
             !.expected_seq_num = @ + 1,
             !.buffer = [k \in DOMAIN r.buffer \ {r.expected_seq_num} |-> r.buffer[k]]])
    ELSE r

\* seq_num == expected_seq_num
InOrder(r, p) ==
    LET r1 == [r EXCEPT !.outfile = @ \o p.data,
                        !.received_packets = @ \cup {p.seq},
                        !.expected_seq_num = @ + 1]
        r2 == DrainBuffer(r1)
    IN [r2 EXCEPT !.sent = {send_ack(r2.expected_seq_num, receiver_window)}]

\* a slip: the segment that came early is written at once as well
OutOfOrder_writes(r, p) ==
    [r EXCEPT !.buffer = (p.seq :> p.data) @@ @,
              !.outfile = @ \o p.data,
              !.sent = {send_ack(r.expected_seq_num, receiver_window)}]

\* a slip: the ack names the segment that came, not the cursor
OutOfOrder_acks_segment(r, p) ==
    [r EXCEPT !.buffer = (p.seq :> p.data) @@ @,
              !.sent = {send_ack(p.seq + 1, receiver_window)}]

\* seq_num > expected_seq_num
OutOfOrder(r, p) ==
    [r EXCEPT !.buffer = (p.seq :> p.data) @@ @,
              !.sent = {send_ack(r.expected_seq_num, receiver_window)}]

\* a slip: the old segment is put in the buffer as well as acked
OldPacket_buffers(r, p) ==
    [r EXCEPT !.buffer = (p.seq :> p.data) @@ @,
              !.sent = {send_ack(r.expected_seq_num, receiver_window)}]

\* seq_num < expected_seq_num
OldPacket(r, p) ==
    [r EXCEPT !.sent = {send_ack(r.expected_seq_num, receiver_window)}]

\* receive_file: one data segment
receive_segment(r, p) ==
    IF p.seq \notin r.received_packets
    THEN IF p.seq = r.expected_seq_num THEN InOrder(r, p)
         ELSE IF p.seq > r.expected_seq_num THEN OutOfOrder(r, p)
         ELSE OldPacket(r, p)
    ELSE r

\* the last two acks sent, the segments that came, whether one came again,
\* whether one came ahead of the cursor, whether the datagram of this event is
\* a segment found in received_packets, what this event sent, and the kind of
\* its datagram (the ack it sent, for a timeout)
TrackReceiver(h, p, sent) ==
    [last    |-> IF sent = {} THEN h.last ELSE (CHOOSE a \in sent : TRUE).ack,
     prev    |-> IF sent = {} THEN h.prev ELSE h.last,
     arrived |-> IF p.kind = "data" THEN h.arrived \cup {p.seq} ELSE h.arrived,
     dup     |-> h.dup \/ (p.kind = "data" /\ p.seq \in h.arrived),
     ooo     |-> h.ooo \/ (p.kind = "data" /\ p.seq > expected_seq_num),
     again   |-> p.kind = "data" /\ p.seq \in received_packets,
     sent    |-> sent,
     kind    |-> p.kind]

\* receive_file: one datagram p returned by recvfrom
ClientHandle(p) ==
    IF p.kind = "end"
    THEN /\ cpc' = "done"
         /\ UNCHANGED <<expected_seq_num, buffer, received_packets, outfile, ackChan>>
    ELSE IF p.kind # "data"
    THEN \* json.loads raises, and only socket.timeout is caught
         /\ cpc' = "crashed"
         /\ UNCHANGED <<expected_seq_num, buffer, received_packets, outfile, ackChan>>
    ELSE LET r == receive_segment(Receiver, p) IN
         /\ expected_seq_num' = r.expected_seq_num
         /\ buffer' = r.buffer
         /\ received_packets' = r.received_packets
         /\ outfile' = r.outfile
         /\ ackChan' = ackChan \cup r.sent
         /\ UNCHANGED cpc

\* receive_file: socket.timeout
ClientOnTimeout ==
    LET a == send_ack(expected_seq_num, receiver_window) IN
    /\ ackChan' = ackChan \cup {a}
    /\ UNCHANGED <<expected_seq_num, buffer, received_packets, outfile, cpc>>

\* the datagram p, in flight, arrives
ClientDeliver(p) ==
    /\ cpc = "run"
    /\ p \in dataChan
    /\ ClientHandle(p)
    /\ dataChan' = dataChan \ {p}
    /\ UNCHANGED <<ccVars, senderVars, rhist, lost>>

\* a datagram in flight arrives, in any order
ClientRecv == \E p \in dataChan : ClientDeliver(p)

\* a datagram in flight arrives and the network keeps a copy of it in flight
ClientRecvDup ==
    /\ cpc = "run"
    /\ \E p \in dataChan : ClientHandle(p)
    /\ UNCHANGED <<ccVars, senderVars, rhist, dataChan, lost>>

\* the 2 s timeout with nothing on its way
ClientTimeout ==
    /\ cpc = "run"
    /\ dataChan = {}
    /\ ClientOnTimeout
    /\ UNCHANGED <<ccVars, senderVars, rhist, dataChan, lost>>

\* the 2 s timeout while a datagram is still on its way
ClientEarlyTimeout ==
    /\ cpc = "run"
    /\ dataChan # {}
    /\ ClientOnTimeout
    /\ UNCHANGED <<ccVars, senderVars, rhist, dataChan, lost>>

(* --------------------- the receiver on its own ------------------------- *)

\* any segment of the file arrives, whatever has arrived before
ArriveSegment ==
    /\ cpc = "run"
    /\ \E s \in Seqs :
          LET p == create_packet(s, ReadChunk(s)) IN
          /\ ClientHandle(p)
          /\ rhist' = TrackReceiver(rhist, p, receive_segment(Receiver, p).sent)
    /\ UNCHANGED <<ccVars, senderVars, dataChan, lost>>

\* the end-of-stream datagram arrives
ArriveEnd ==
    /\ cpc = "run"
    /\ ClientHandle(EndPacket)
    /\ rhist' = TrackReceiver(rhist, EndPacket, {})
    /\ UNCHANGED <<ccVars, senderVars, dataChan, lost>>

\* a datagram that does not decode arrives
ArriveUndecodable ==
    /\ cpc = "run"
    /\ ClientHandle(Undecodable)
    /\ rhist' = TrackReceiver(rhist, Undecodable, {})
    /\ UNCHANGED <<ccVars, senderVars, dataChan, lost>>

\* the 2 s timeout between two arrivals
SilentTimeout ==
    /\ cpc = "run"
    /\ ClientOnTimeout
    /\ LET a == send_ack(expected_seq_num, receiver_window) IN
       rhist' = TrackReceiver(rhist, a, {a})
    /\ UNCHANGED <<ccVars, senderVars, dataChan, lost>>

RecvNext == ArriveSegment \/ ArriveEnd \/ ArriveUndecodable \/ SilentTimeout

RecvSpec == SoloInit /\ [][RecvNext]_vars

(* ------------------------------- sender -------------------------------- *)

\* min(cc.cwnd, len(unacked_packets) + MSS)
EffectiveWindow(cwnd, len) == IF GeqInt(cwnd, len + MSS) THEN FromInt(len + MSS) ELSE cwnd

\* a slip: the window test admits one segment too many
WindowOpen_inclusive(len, effective_window) == len * effective_window.d <= effective_window.n

\* len(unacked_packets) < effective_window
WindowOpen(len, effective_window) == IntLess(len, effective_window)

\* the body of the fill loop after a non-empty read: send, record, count
SendNew(s, data) ==
    LET packet == create_packet(s.seq_num, data) IN
    [seq_num |-> s.seq_num + 1,
     unacked_packets |-> (s.seq_num :> packet) @@ s.unacked_packets,
     chunk |-> data,
     out |-> s.out \cup {packet},
     n |-> s.n + 1]

\* the inner while loop of send_file; the file position is seq_num
RECURSIVE FillLoop(_, _)
FillLoop(s, effective_window) ==
    IF WindowOpen(Cardinality(DOMAIN s.unacked_packets), effective_window)
    THEN LET data == ReadChunk(s.seq_num) IN
         IF data = <<>> THEN [s EXCEPT !.chunk = data]
         ELSE FillLoop(SendNew(s, data), effective_window)
    ELSE s

\* retransmit_unacked_packets
retransmit_unacked_packets(unacked) == {unacked[k] : k \in DOMAIN unacked}

\* fast_recovery
fast_recovery(unacked, base) == IF base \in DOMAIN unacked THEN {unacked[base]} ELSE {}

\* a slip: the end is sent as soon as the file is read, whatever is in flight
Finished_ignores_window(lastChunk, unacked) == lastChunk = <<>>

\* a slip: the end is sent as soon as nothing is in flight, read or not
Finished_ignores_file(lastChunk, unacked) == DOMAIN unacked = {}

\* not chunk and len(unacked_packets) == 0
Finished(lastChunk, unacked) == lastChunk = <<>> /\ DOMAIN unacked = {}

\* what one event of the wait adds to the history: its kind, the segments it
\* sent again, the segments in flight that have been sent more than once, the
\* segment whose send time went to rtt_estimator.update and whether that
\* segment had been sent again before, and the window field of the last ack
TrackSender(ev, unacked, out, sampled, window) ==
    [shist EXCEPT !.ev = ev,
                  !.rtx = {q.seq : q \in out},
                  !.resent = (@ \cup {q.seq : q \in out}) \cap DOMAIN unacked,
                  !.sampled = sampled,
                  !.sampled_again = sampled \in shist.resent,
                  !.window = window]

\* the end of one pass of the outer loop, from the test for completion to the
\* next recvfrom: c, base, unacked, last are the values the event left, out the
\* datagrams it sent, h the history with the event in it
FinishOrFill(c, base, unacked, last, out, h) ==
    /\ cc' = c
    /\ window_base' = base
    /\ last_ack_received' = last
    /\ IF Finished(chunk, unacked)
       THEN /\ dataChan' = dataChan \cup out \cup {EndPacket}
            /\ spc' = "done"
            /\ unacked_packets' = unacked
            /\ shist' = [h EXCEPT !.ends   = shist.ends + 1,
                                  !.late   = shist.late \/ (shist.ends > 0 /\ out # {}),
                                  !.filled = 0]
            /\ UNCHANGED <<seq_num, chunk>>
       ELSE LET f == FillLoop([seq_num |-> seq_num, unacked_packets |-> unacked,
                               chunk |-> chunk, out |-> out, n |-> 0],
                              EffectiveWindow(c.cwnd, Cardinality(DOMAIN unacked)))
            IN /\ dataChan' = dataChan \cup f.out
               /\ spc' = "wait"
               /\ unacked_packets' = f.unacked_packets
               /\ seq_num' = f.seq_num
               /\ chunk' = f.chunk
               /\ shist' = [h EXCEPT !.late   = shist.late \/ (shist.ends > 0 /\ f.out # {}),
                                     !.filled = f.n]

\* the first pass of the fill loop: recvfrom returns any datagram, which names
\* the peer; the chunk already read is sent and the loop goes on
ServerConnect(m, again) ==
    /\ spc = "listen"
    /\ m \in ackChan
    /\    LET s0 == SendNew([seq_num |-> seq_num, unacked_packets |-> unacked_packets,
                             chunk |-> chunk, out |-> {}, n |-> 0], chunk)
              f  == FillLoop(s0, EffectiveWindow(cc.cwnd, 0))
          IN /\ ackChan' = IF again THEN ackChan ELSE ackChan \ {m}
             /\ dataChan' = dataChan \cup f.out
             /\ unacked_packets' = f.unacked_packets
             /\ seq_num' = f.seq_num
             /\ chunk' = f.chunk
             /\ shist' = [shist EXCEPT !.filled = f.n, !.ev = "connect"]
             /\ spc' = "wait"
    /\ UNCHANGED <<file_chunks, cc, hist, window_base, last_ack_received, rtt_estimator,
                   rtt_hist, clientVars, lost>>

\* the first datagram arrives
ServerAccept == \E m \in ackChan : ServerConnect(m, FALSE)

\* the first datagram arrives and the network keeps a copy of it in flight
ServerAcceptDup == \E m \in ackChan : ServerConnect(m, TRUE)

\* time.time() - unacked_packets[window_base][1] where the sender runs against
\* acks: the model keeps no clock there, and takes one second for every sample
Elapsed == {FromInt(1)}

\* the wait of send_file returns the datagram m
ServerHandle(m) ==
          /\ IF m.kind # "ack"
             THEN \* json.loads raises, and only socket.timeout is caught
                  /\ spc' = "crashed"
                  /\ shist' = TrackSender("undecodable", unacked_packets, {}, 0 - 1,
                                          shist.window)
                  /\ UNCHANGED <<cc, seq_num, window_base, unacked_packets,
                                 last_ack_received, chunk, rtt_estimator, dataChan>>
             ELSE /\ Floor(cc.cwnd) < MaxSysCwnd
                  /\ IF m.ack > last_ack_received
                     THEN IF window_base \notin DOMAIN unacked_packets
                          THEN \* unacked_packets[window_base] raises KeyError
                               /\ spc' = "crashed"
                               /\ shist' = TrackSender("new", unacked_packets, {}, 0 - 1,
                                                       m.window)
                               /\ UNCHANGED <<cc, seq_num, window_base, unacked_packets,
                                              last_ack_received, chunk, rtt_estimator,
                                              dataChan>>
                          ELSE LET unacked == [k \in {j \in DOMAIN unacked_packets : j >= m.ack}
                                                  |-> unacked_packets[k]]
                               IN /\ \E rtt \in Elapsed :
                                        rtt_estimator' = update(rtt_estimator, rtt)
                                  /\ FinishOrFill(on_ack_received(cc, FALSE), m.ack,
                                         unacked, m.ack, {},
                                         TrackSender("new", unacked, {}, window_base,
                                                     m.window))
                     ELSE LET c   == on_ack_received(cc, TRUE)
                              out == IF c.state = "fast_recovery"
                                        /\ c.dup_ack_count >= DUP_ACK_THRESHOLD
                                     THEN fast_recovery(unacked_packets, window_base)
                                     ELSE {}
                          IN /\ UNCHANGED rtt_estimator
                             /\ FinishOrFill(c, window_base, unacked_packets,
                                    last_ack_received, out,
                                    TrackSender("dup", unacked_packets, out, 0 - 1,
                                                m.window))

\* the datagram m, in flight, arrives
ServerDeliver(m) ==
    /\ spc = "wait"
    /\ m \in ackChan
    /\ ackChan' = ackChan \ {m}
    /\ ServerHandle(m)
    /\ UNCHANGED <<hist, rtt_hist, file_chunks, clientVars, lost>>

\* a datagram in flight arrives, in any order
ServerRecv == \E m \in ackChan : ServerDeliver(m)

\* a datagram in flight arrives and the network keeps a copy of it in flight
ServerRecvDup ==
    /\ spc = "wait"
    /\ \E m \in ackChan : ServerHandle(m)
    /\ UNCHANGED <<hist, rtt_hist, file_chunks, clientVars, ackChan, lost>>

\* except socket.timeout
ServerOnTimeout ==
    LET out == retransmit_unacked_packets(unacked_packets) IN
    /\ UNCHANGED rtt_estimator
    /\ FinishOrFill(on_timeout(cc), window_base, unacked_packets, last_ack_received,
                    out,
                    TrackSender("timeout", unacked_packets, out, 0 - 1, shist.window))

\* the retransmission timeout with nothing on its way
ServerTimeout ==
    /\ spc = "wait"
    /\ ackChan = {}
    /\ ServerOnTimeout
    /\ UNCHANGED <<hist, rtt_hist, file_chunks, clientVars, ackChan, lost>>

\* the retransmission timeout while a datagram is still on its way
ServerEarlyTimeout ==
    /\ spc = "wait"
    /\ ackChan # {}
    /\ ServerOnTimeout
    /\ UNCHANGED <<hist, rtt_hist, file_chunks, clientVars, ackChan, lost>>

(* ------------------------------- channel ------------------------------- *)

\* the network drops a datagram
Lose ==
    /\ lost < MaxLoss
    /\ lost' = lost + 1
    /\ \/ \E p \in dataChan : dataChan' = dataChan \ {p} /\ UNCHANGED ackChan
       \/ \E m \in ackChan : ackChan' = ackChan \ {m} /\ UNCHANGED dataChan
    /\ UNCHANGED <<ccVars, senderVars, clientVars>>

(* ----------------------------- the system ------------------------------ *)

Next ==
    \/ ServerAccept
    \/ ServerAcceptDup
    \/ ServerRecv
    \/ ServerRecvDup
    \/ ServerTimeout
    \/ ServerEarlyTimeout
    \/ ClientRecv
    \/ ClientRecvDup
    \/ ClientTimeout
    \/ ClientEarlyTimeout
    \/ Lose

Spec == Init /\ [][Next]_vars

(* ---------------------- the sender on its own -------------------------- *)

\* the values of the window field of an ack: the one the receiver of
\* p2_client.py always sends, and a small one
AdvertisedWindows == {SmallWindow, receiver_window}

\* any cumulative ack a receiver could send arrives, whatever arrived before
AckArrives ==
    /\ spc = "wait"
    /\ \E a \in 0 .. seq_num, w \in AdvertisedWindows : ServerHandle(send_ack(a, w))
    /\ UNCHANGED <<hist, rtt_hist, file_chunks, clientVars, ackChan, lost>>

SenderNext ==
    \/ ServerAccept
    \/ ServerAcceptDup
    \/ ServerRecvDup
    \/ AckArrives
    \/ ServerTimeout
    \/ ServerEarlyTimeout

SenderSpec == SoloInit /\ [][SenderNext]_vars

(* ------------------- the system with fair scheduling ------------------- *)

\* every datagram the sender and the receiver can put in flight
DataPackets == {create_packet(s, <<s>>) : s \in 0 .. (NumSegs - 1)} \cup {EndPacket}

AckPackets == {send_ack(a, receiver_window) : a \in 0 .. NumSegs} \cup {StartPacket}

\* the network loses and reorders but keeps no copies; the timeouts fire only
\* when no datagram is on its way to the waiting side
FairNext ==
    \/ ServerAccept
    \/ ServerRecv
    \/ ServerTimeout
    \/ ClientRecv
    \/ ClientTimeout
    \/ Lose

\* every datagram that stays in flight arrives; a timeout that stays due
\* fires; nothing obliges the network to drop anything
FairSpec ==
    /\ Init
    /\ [][FairNext]_vars
    /\ WF_vars(ServerAccept)
    /\ \A m \in AckPackets : WF_vars(ServerDeliver(m))
    /\ WF_vars(ServerTimeout)
    /\ \A p \in DataPackets : WF_vars(ClientDeliver(p))
    /\ WF_vars(ClientTimeout)

(* ------------------ claims about the sender on its own ----------------- *)

InFlight == Cardinality(DOMAIN unacked_packets)

C5_EndOnceAndLast ==
    /\ shist.ends <= 1
    /\ ~shist.late
    /\ shist.ends = 1 =>
          /\ spc = "done"
          /\ chunk = <<>>
          /\ seq_num = file_chunks
          /\ InFlight = 0
          /\ EndPacket \in dataChan
    /\ spc = "done" => shist.ends = 1

C5_Witness ==
    /\ shist.ends = 1
    /\ spc = "done"
    /\ seq_num = file_chunks
    /\ last_ack_received = file_chunks
    /\ cc.ssthresh < INITIAL_SSTHRESH

\* C12: a duplicate ack makes the sender retransmit the segment at window_base
\* exactly when it is the duplicate on which the controller enters
\* fast_recovery; a duplicate ack that finds the controller in fast_recovery
\* retransmits nothing.
C12_OneFastRetransmit ==
    [][shist'.ev = "dup" =>
          IF cc.state # "fast_recovery" /\ cc'.state = "fast_recovery"
          THEN shist'.rtx = {window_base}
          ELSE shist'.rtx = {}]_vars

\* C15: once an ack has been received, the fill phase sends a new segment only
\* while the number of entries in unacked_packets is below the window W carried
\* by the most recently received ack, so a fill phase that has sent something
\* leaves at most W entries in flight.
C15_WithinAdvertisedWindow ==
    (shist.window >= 0 /\ shist.filled > 0) => InFlight <= shist.window

(* ------------------------ claims about the system ---------------------- *)

\* C18: whenever the sender has sent the end of stream, the receiver has
\* expected_seq_num = N, an empty buffer and the N segments of the file in its
\* output file, whatever was lost, reordered or duplicated; so a receiver that
\* stops on the end of stream has the whole file.
C18_EndAfterDelivery ==
    (shist.ends >= 1 \/ EndPacket \in dataChan \/ cpc = "done") =>
        /\ expected_seq_num = file_chunks
        /\ DOMAIN buffer = {}
        /\ outfile = [i \in 1 .. file_chunks |-> i - 1]

\* the receiver has stopped on the end of stream of a run with a loss, a
\* retransmission and a segment that came ahead of the cursor
C18_Witness ==
    /\ cpc = "done"
    /\ shist.ends = 1
    /\ lost = MaxLoss
    /\ cc.ssthresh < INITIAL_SSTHRESH
    /\ received_packets # Seqs

\* C14: whenever rtt_estimator.update is called on a new ack, the segment at
\* window_base, whose send time makes the sample, has been sent exactly once:
\* neither a timeout nor a fast retransmit has sent it again.
C14_SampleSentOnce == shist.sampled >= 0 => ~shist.sampled_again


\* the sender has sent the end of stream and the receiver has written the file
TransferComplete ==
    /\ shist.ends >= 1
    /\ InFlight = 0
    /\ expected_seq_num = file_chunks
    /\ outfile = [i \in 1 .. file_chunks |-> i - 1]

\* C3: with finitely many datagrams lost and timeouts that fire only when
\* nothing is on its way, the transfer completes: the sender empties its window
\* and sends the end of stream with every segment written by the receiver.
\* A run that reaches the model's cap on cwnd, or in which a late copy of the
\* handshake brings the sender down, is not counted against it.
C3_TransferCompletes ==
    <>(TransferComplete \/ Floor(cc.cwnd) >= MaxSysCwnd \/ spc = "crashed")

\* C13: a datagram that fails to decode neither ends nor alters the session
\* that receives it.  The sender in its wait keeps cc, unacked_packets,
\* window_base and last_ack_received and goes on waiting; the receiver keeps
\* expected_seq_num, buffer and output file and goes on waiting.
C13_UndecodableIgnored ==
    [][/\ (shist' # shist /\ shist'.ev = "undecodable") =>
             /\ spc' = "wait"
             /\ UNCHANGED <<cc, unacked_packets, window_base, last_ack_received>>
       /\ (rhist' # rhist /\ rhist'.kind = "undecodable") =>
             /\ cpc' = "run"
             /\ UNCHANGED <<expected_seq_num, buffer, outfile>>]_vars

(* ------------------ claims about the receiver on its own --------------- *)

\* the payloads of segments 0 .. n-1, one after the other
Prefix(n) == [i \in 1 .. n |-> i - 1]

\* C1: whatever the order of arrival and the duplication, the output file holds
\* exactly the payloads of segments 0 .. expected_seq_num - 1, in ascending
\* order, each once.
C1_InOrderOnce == outfile = Prefix(expected_seq_num)

C1_Witness ==
    /\ rhist.ooo
    /\ rhist.dup
    /\ expected_seq_num = file_chunks

\* C2: once each of the N segments 0 .. N - 1 of the file has arrived at least
\* once, in any order and with any duplicates, expected_seq_num = N, the buffer
\* is empty and the output file is the whole file.
C2_AllArrivedAllWritten ==
    rhist.arrived = Seqs =>
        /\ expected_seq_num = file_chunks
        /\ DOMAIN buffer = {}
        /\ outfile = Prefix(file_chunks)

C2_Witness == rhist.arrived = Seqs /\ rhist.ooo /\ rhist.dup /\ cpc = "run"

\* C6: every ack the receiver sends is at most expected_seq_num + 1 when it is
\* sent, and the acks of a session never decrease.
C6_AckBounded ==
    /\ rhist.last <= expected_seq_num + 1
    /\ rhist.prev <= rhist.last

C6_Witness ==
    /\ rhist.ooo
    /\ rhist.prev >= 0
    /\ rhist.prev < rhist.last
    /\ rhist.last = expected_seq_num

\* C17: between two datagram events every key of the buffer is strictly greater
\* than expected_seq_num: the loop over the buffer leaves no segment at or
\* behind the cursor.
C17_BufferAhead == \A k \in DOMAIN buffer : k > expected_seq_num

\* segment 1 came early and left the buffer when 0 came; 4 is still held
C17_Witness ==
    /\ expected_seq_num = 2
    /\ received_packets = {0}
    /\ DOMAIN buffer = {4}
    /\ outfile = Prefix(2)

\* C11: when a data segment arrives whose seq is already in received_packets,
\* the receiver sends one cumulative ack carrying expected_seq_num and changes
\* none of expected_seq_num, buffer, output file and received_packets.
C11_DuplicateReAcked ==
    [][rhist'.again =>
          /\ rhist'.sent = {send_ack(expected_seq_num, receiver_window)}
          /\ UNCHANGED <<expected_seq_num, buffer, outfile, received_packets>>]_vars

(* ------------------- the controller on its own ------------------------- *)

\* the events of the controller so far: the last one and the phase it found,
\* the run of consecutive duplicate acks, and the count of new acks while
\* nothing else has happened
Track(h, ev) ==
    [ev   |-> ev,
     from |-> cc.state,
     run  |-> IF ev # "dup" THEN 0
              ELSE IF h.run <= DUP_ACK_THRESHOLD THEN h.run + 1 ELSE h.run,
     acks |-> IF ev = "new" /\ h.acks >= 0 THEN h.acks + 1 ELSE 0 - 1]

NewAck ==
    /\ Floor(cc.cwnd) < MaxCwnd
    /\ cc' = on_ack_received(cc, FALSE)
    /\ hist' = Track(hist, "new")
    /\ UNCHANGED <<senderVars, clientVars, chanVars>>

DuplicateAck ==
    /\ Floor(cc.cwnd) < MaxCwnd
    /\ cc' = on_ack_received(cc, TRUE)
    /\ hist' = Track(hist, "dup")
    /\ UNCHANGED <<senderVars, clientVars, chanVars>>

Timeout ==
    /\ cc' = on_timeout(cc)
    /\ hist' = Track(hist, "timeout")
    /\ UNCHANGED <<senderVars, clientVars, chanVars>>

CCNext == NewAck \/ DuplicateAck \/ Timeout

CCSpec == SoloInit /\ [][CCNext]_vars

(* -------------------- the estimator on its own ------------------------- *)

\* the samples the estimator is given: whole seconds, zero included
RttSamples == {FromInt(k) : k \in 0 .. MaxRtt}

\* rtt_estimator.update(rtt) with any of the samples
Sample ==
    /\ rtt_hist.n < MaxSamples
    /\ \E rtt \in RttSamples :
          /\ rtt_estimator' = update(rtt_estimator, rtt)
          /\ rtt_hist' = [n |-> rtt_hist.n + 1, zero |-> rtt_hist.zero \/ rtt.n = 0]
    /\ UNCHANGED <<ccVars, file_chunks, seq_num, window_base, unacked_packets,
                   last_ack_received, chunk, spc, shist, clientVars, chanVars>>

RttNext == Sample

RttSpec == SoloInit /\ [][RttNext]_vars

(* ------------------ claims about the estimator on its own -------------- *)

\* C16: after any sequence of RTT samples, samples equal to zero included, the
\* timeout the sender passes to settimeout before each wait is strictly
\* positive.
C16_TimeoutPositive == IntLess(0, rtt_estimator.timeout)

(* ----------------- claims about the controller on its own -------------- *)

\* the integer k with k <= x/2 < k + 1
HalfOf(x) == CHOOSE k \in 0 .. x.n : 2 * k * x.d <= x.n /\ x.n < 2 * (k + 1) * x.d

\* C7: after any sequence of new-ack, duplicate-ack and timeout events from the
\* initial state, cwnd >= 1 and ssthresh >= 2.
C7_WindowFloors == cc.cwnd.n >= cc.cwnd.d /\ cc.ssthresh >= 2

C7_Witness == hist.ev = "timeout" /\ hist.from = "fast_recovery" /\ cc.ssthresh = 2

\* C8: on_timeout() in any phase, with prior window c, yields cwnd = 1, state
\* slow_start, dup_ack_count = 0 and ssthresh = max(floor(c/2), 2).
C8_TimeoutResets ==
    [][hist'.ev = "timeout" =>
          /\ cc'.cwnd = [n |-> 1, d |-> 1]
          /\ cc'.state = "slow_start"
          /\ cc'.dup_ack_count = 0
          /\ cc'.ssthresh = IF HalfOf(cc.cwnd) >= 2 THEN HalfOf(cc.cwnd) ELSE 2]_vars

C8_Witness ==
    /\ hist.ev = "timeout"
    /\ hist.from = "fast_recovery"
    /\ cc.ssthresh > 2
    /\ cc.cwnd = [n |-> 1, d |-> 1]

\* C9: from slow_start or congestion_avoidance with window c, the third
\* consecutive duplicate ack yields ssthresh = max(floor(c/2), 2), cwnd =
\* ssthresh + 3 and fast_recovery; the first and the second change none of
\* cwnd, ssthresh and the state.
C9_TripleDuplicate ==
    [][(hist'.ev = "dup" /\ cc.state \in {"slow_start", "congestion_avoidance"}) =>
          IF hist'.run = 3
          THEN /\ cc'.ssthresh = (IF HalfOf(cc.cwnd) >= 2 THEN HalfOf(cc.cwnd) ELSE 2)
               /\ cc'.cwnd = [n |-> cc'.ssthresh + 3, d |-> 1]
               /\ cc'.state = "fast_recovery"
          ELSE /\ hist'.run \in {1, 2}
               /\ cc'.cwnd = cc.cwnd
               /\ cc'.ssthresh = cc.ssthresh
               /\ cc'.state = cc.state]_vars

\* three duplicates in a row out of congestion avoidance at a window in [20, 22)
C9_Witness ==
    /\ hist.ev = "dup"
    /\ hist.run = 3
    /\ hist.from = "congestion_avoidance"
    /\ cc.state = "fast_recovery"
    /\ cc.ssthresh = 10
    /\ cc.cwnd = [n |-> 13, d |-> 1]

\* C10: n new acks in a row from the initial state give cwnd = 1 + n in slow
\* start; the state is slow_start while cwnd < 64 and congestion_avoidance
\* from the ack at which cwnd reaches 64.
C10_SlowStartGrowth ==
    hist.acks >= 0 =>
        /\ hist.acks < 63 => (cc.state = "slow_start" /\ cc.cwnd = [n |-> 1 + hist.acks, d |-> 1])
        /\ hist.acks = 15 => cc.cwnd = [n |-> 16, d |-> 1]
        /\ hist.acks = 63 => cc.cwnd = [n |-> 64, d |-> 1]
        /\ hist.acks >= 63 => cc.state = "congestion_avoidance"

C10_Witness == hist.acks = 63 /\ cc.state = "congestion_avoidance" /\ cc.ssthresh = 64

\* C19: in every reachable state of the controller, the state is fast_recovery
\* if and only if dup_ack_count is 3; in slow_start and congestion_avoidance
\* dup_ack_count is 0, 1 or 2.
C19_CountTellsRecovery ==
    /\ cc.state = "fast_recovery" <=> cc.dup_ack_count = DUP_ACK_THRESHOLD
    /\ cc.state \in {"slow_start", "congestion_avoidance"} => cc.dup_ack_count \in 0 .. 2

\* a fourth duplicate in a row, received in fast recovery
C19_Witness ==
    /\ hist.ev = "dup"
    /\ hist.run = DUP_ACK_THRESHOLD + 1
    /\ hist.from = "fast_recovery"
    /\ cc.state = "fast_recovery"
    /\ IntLess(cc.ssthresh + 3, cc.cwnd)

\* C20: in every reachable state of the controller, slow_start implies
\* cwnd < ssthresh and congestion_avoidance implies cwnd >= ssthresh.
C20_PhaseAgreesWithThreshold ==
    /\ cc.state = "slow_start" => ~GeqInt(cc.cwnd, cc.ssthresh)
    /\ cc.state = "congestion_avoidance" => GeqInt(cc.cwnd, cc.ssthresh)

\* congestion avoidance entered from fast recovery, at cwnd = ssthresh
C20_Witness ==
    /\ hist.ev = "new"
    /\ hist.from = "fast_recovery"
    /\ cc.state = "congestion_avoidance"
    /\ cc.cwnd = FromInt(cc.ssthresh)
    /\ cc.ssthresh > 2

====
